---- MODULE Spec2Model ----
(***************************************************************************)
(* ATmega128 fan and servo controller (src/ATmega128_fan.c).               *)
(*                                                                         *)
(* Two contexts share the controller state: the polled main loop, modelled *)
(* statement by statement (pc is the next statement of main() or of a      *)
(* function it called), and the SPI transfer-complete interrupt, which     *)
(* runs to completion between any two main-loop steps (an AVR interrupt    *)
(* handler runs with interrupts masked).                                   *)
(***************************************************************************)
EXTENDS Integers, FiniteSets, TLC

(* ------------------------------------------------------------------ *)
(* Program constants                                                    *)
(* ------------------------------------------------------------------ *)
STATUS_RUNNING == 222
STATUS_READY == 111
STATUS_HOMING_OFF == 0

SWITCH_SPEED_PIN == 0
SWITCH_TOGGLE_PIN == 1

LED_LOW_PIN == 0
LED_MEDIUM_PIN == 1
LED_HIGH_PIN == 2

ICR_8KHZ == 1999
\* (uint16_t)(ICR_8KHZ * 0.2), * 0.4, * 0.6: the conversion truncates
DUTY_LOW == (ICR_8KHZ * 2) \div 10
DUTY_MEDIUM == (ICR_8KHZ * 4) \div 10
DUTY_HIGH == (ICR_8KHZ * 6) \div 10

SERVO_CW_MAX == 610
SERVO_CCW_MAX == 140
SERVO_CENTER == 375

CMD_RESET == 200
CMD_START == 255
ANGLE_MIN == 10
ANGLE_MAX == 170
ANGLE_DIV == 160

U8 == 256
U16 == 65536

(* ------------------------------------------------------------------ *)
(* Bounds of the model: what the environment sends                      *)
(* ------------------------------------------------------------------ *)
\* the host's ANGLE bytes lie AngleSpan below and above byte 90 (the centre)
AngleSpan == 1
AngleBytes == {90 - AngleSpan, 90 + AngleSpan}
\* bytes the host sends: poll, an unrecognized byte, RESET, START, angles
HostBytes == {0, 201, CMD_RESET, CMD_START} \cup AngleBytes
\* levels a button line can be sampled at
LineLevels == BOOLEAN

VARIABLES
    \* globals of the program
    motor_running, speed_level, user_ready_flag, servo_homing_required,
    servo_current_ocr, servo_target_ocr, current_spi_status,
    \* peripheral registers the program writes; TEMP is the high-byte latch
    \* of timer 3, through which every 16-bit register of the timer is
    \* written (high byte to TEMP, then the low byte stores both)
    SPDR, OCR1A, OCR3A, TEMP, COM3A1, CS30, FAN_PWM_PORT, LED_PORT,
    \* the input register: the set of button lines that are asserted
    SWITCH_PIN,
    \* locals of main()
    toggle_button_pressed, speed_button_pressed,
    \* position of the main loop, return address of the function it is in,
    \* and the value it holds in a register between two statements
    pc, ret, reg,
    \* what the last step was, the byte the last handler run received
    step, rx,
    \* observers: servo_current_ocr at the start of the tick;
    \* the undisturbed run (no handler run, no press event) in progress:
    \* servo_current_ocr when it began (-1: none), the ticks completed since,
    \* whether the servo was homing when it began, whether it began with a
    \* switch-on press of the toggle button while the fan was stopped;
    \* the speed level when the speed press in progress began (-1: none);
    \* per button line: the press events produced by the press in progress
    \* (0 while the line is deasserted), and the ticks begun since the line
    \* last changed (counted up to 2: one whole tick has passed)
    cur0, q0, qk, qhome, qtog, ev, pev, page

prog == <<motor_running, speed_level, user_ready_flag, servo_homing_required,
          servo_current_ocr, servo_target_ocr, current_spi_status,
          SPDR, OCR1A, OCR3A, TEMP, COM3A1, CS30, FAN_PWM_PORT, LED_PORT>>
locals == <<toggle_button_pressed, speed_button_pressed>>
obs == <<cur0, q0, qk, qhome, qtog, ev>>
lines == <<SWITCH_PIN, pev, page>>
vars == <<prog, locals, pc, ret, reg, step, rx, obs, lines>>

(* ------------------------------------------------------------------ *)
(* The shared state as one record, for the code that runs atomically    *)
(* ------------------------------------------------------------------ *)
Shared ==
    [motor_running |-> motor_running, speed_level |-> speed_level,
     user_ready_flag |-> user_ready_flag,
     servo_homing_required |-> servo_homing_required,
     servo_current_ocr |-> servo_current_ocr,
     servo_target_ocr |-> servo_target_ocr,
     current_spi_status |-> current_spi_status,
     SPDR |-> SPDR, OCR1A |-> OCR1A, OCR3A |-> OCR3A, TEMP |-> TEMP,
     COM3A1 |-> COM3A1,
     CS30 |-> CS30, FAN_PWM_PORT |-> FAN_PWM_PORT, LED_PORT |-> LED_PORT]

\* the duty value set_fan_speed writes for a level (none for other levels)
DutyOf(level, old) ==
    CASE level = 0 -> DUTY_HIGH
      [] level = 1 -> DUTY_MEDIUM
      [] level = 2 -> DUTY_LOW
      [] OTHER -> old

\* the LEDs update_leds lights for a level: the switch falls through
LedsOf(level) ==
    CASE level = 2 -> {LED_HIGH_PIN, LED_MEDIUM_PIN, LED_LOW_PIN}
      [] level = 1 -> {LED_MEDIUM_PIN, LED_LOW_PIN}
      [] level = 0 -> {LED_LOW_PIN}
      [] OTHER -> {}

update_leds(s) ==
    IF s.motor_running = 0
    THEN [s EXCEPT !.LED_PORT = {}]
    ELSE [s EXCEPT !.LED_PORT = LedsOf(s.speed_level)]

\* the 16-bit store of line 277-279 goes through TEMP
set_fan_speed(s, level) ==
    update_leds([s EXCEPT !.OCR3A = DutyOf(level, s.OCR3A),
                          !.TEMP = IF level \in {0, 1, 2}
                                   THEN DutyOf(level, 0) \div U8 ELSE @])

start_fan(s) ==
    LET s1 == [s EXCEPT !.motor_running = 1, !.speed_level = 0, !.COM3A1 = 1]
        s2 == set_fan_speed(s1, s1.speed_level)
    IN  [s2 EXCEPT !.CS30 = 1]

stop_fan(s) ==
    update_leds([s EXCEPT !.motor_running = 0, !.CS30 = 0, !.COM3A1 = 0,
                          !.FAN_PWM_PORT = 0, !.speed_level = 0])

\* (long)(received_data - 10) * (SERVO_CW_MAX - SERVO_CCW_MAX) / 160
\*   + SERVO_CCW_MAX, stored in a uint16_t
ocr_value(received_data) ==
    (((received_data - ANGLE_MIN) * (SERVO_CW_MAX - SERVO_CCW_MAX)) \div ANGLE_DIV
        + SERVO_CCW_MAX) % U16

\* mutant: the flags are reset only inside if (motor_running)
Reset_OnlyWhenRunning(s) ==
    IF s.motor_running # 0
    THEN [stop_fan(s) EXCEPT !.user_ready_flag = 0, !.servo_homing_required = 1]
    ELSE s

\* line 100-106, [command 200]: reset
Reset(s) ==
    [(IF s.motor_running # 0 THEN stop_fan(s) ELSE s)
        EXCEPT !.user_ready_flag = 0, !.servo_homing_required = 1]

\* mutant: the angle is taken whether or not the fan runs
Angle_Ungated(s, received_data) ==
    IF s.user_ready_flag = 1
    THEN [s EXCEPT !.servo_target_ocr = ocr_value(received_data)]
    ELSE s

\* line 108-115, [command 10-170]: set the angle, only while ready and running
Angle(s, received_data) ==
    IF s.user_ready_flag = 1 /\ s.motor_running = 1
    THEN [s EXCEPT !.servo_target_ocr = ocr_value(received_data)]
    ELSE s

\* mutant: START is taken in every status
Start_Ungated(s) == start_fan(s)

\* line 117-121, [command 255]: start the fan, only in status READY
Start(s) ==
    IF s.current_spi_status = STATUS_READY THEN start_fan(s) ELSE s

\* mutant: the angle range ends at the RESET byte instead of at 170
Command_AngleUpToReset(s, received_data) ==
    IF received_data = CMD_RESET THEN Reset(s)
    ELSE IF received_data >= ANGLE_MIN /\ received_data < CMD_RESET
    THEN Angle(s, received_data)
    ELSE IF received_data = CMD_START THEN Start(s)
    ELSE s

\* line 100-123: the dispatch on the received byte
Command(s, received_data) ==
    IF received_data = CMD_RESET THEN Reset(s)
    ELSE IF received_data >= ANGLE_MIN /\ received_data <= ANGLE_MAX
    THEN Angle(s, received_data)
    ELSE IF received_data = CMD_START THEN Start(s)
    ELSE s

\* mutant: the handler recomputes the status it queues from the flags
ISR_RespondsDerived(s, received_data) ==
    LET s1 == Command(s, received_data)
    IN  [s1 EXCEPT !.SPDR =
            IF s1.motor_running # 0 THEN STATUS_RUNNING
            ELSE IF s1.user_ready_flag = 1 /\ s1.servo_current_ocr = SERVO_CENTER
            THEN STATUS_READY ELSE STATUS_HOMING_OFF]

\* the handler's effect on the shared state for one received byte: the
\* command, then line 126 queues the stored status as the next response
ISR(s, received_data) ==
    LET s1 == Command(s, received_data)
    IN  [s1 EXCEPT !.SPDR = s1.current_spi_status]

SetShared(s) ==
    /\ motor_running' = s.motor_running
    /\ speed_level' = s.speed_level
    /\ user_ready_flag' = s.user_ready_flag
    /\ servo_homing_required' = s.servo_homing_required
    /\ servo_current_ocr' = s.servo_current_ocr
    /\ servo_target_ocr' = s.servo_target_ocr
    /\ current_spi_status' = s.current_spi_status
    /\ SPDR' = s.SPDR
    /\ OCR1A' = s.OCR1A
    /\ OCR3A' = s.OCR3A
    /\ TEMP' = s.TEMP
    /\ COM3A1' = s.COM3A1
    /\ CS30' = s.CS30
    /\ FAN_PWM_PORT' = s.FAN_PWM_PORT
    /\ LED_PORT' = s.LED_PORT

(* ------------------------------------------------------------------ *)
(* Initial state: main() up to the first iteration of while (1)         *)
(* ------------------------------------------------------------------ *)
Init ==
    /\ motor_running = 0
    /\ speed_level = 0
    /\ user_ready_flag = 0
    /\ servo_homing_required = 0
    /\ servo_current_ocr = SERVO_CENTER
    /\ servo_target_ocr = SERVO_CENTER
    /\ current_spi_status = 0
    /\ SPDR = STATUS_HOMING_OFF
    /\ OCR1A = SERVO_CENTER
    /\ OCR3A = 0
    /\ TEMP = ICR_8KHZ \div U8
    /\ COM3A1 = 0
    /\ CS30 = 0
    /\ FAN_PWM_PORT = 0
    /\ LED_PORT = {}
    /\ toggle_button_pressed = 0
    /\ speed_button_pressed = 0
    /\ pc = "L163"
    /\ ret = "none"
    /\ reg = 0
    /\ step = "init"
    /\ rx = -1
    /\ cur0 = SERVO_CENTER
    /\ q0 = -1
    /\ qk = 0
    /\ qhome = FALSE
    /\ qtog = FALSE
    /\ ev = -1
    /\ SWITCH_PIN = {}
    /\ pev = [p \in {SWITCH_SPEED_PIN, SWITCH_TOGGLE_PIN} |-> 0]
    /\ page = [p \in {SWITCH_SPEED_PIN, SWITCH_TOGGLE_PIN} |-> 2]

(* ------------------------------------------------------------------ *)
(* The interrupt handler, run once per completed transfer               *)
(* ------------------------------------------------------------------ *)
\* every handler run ends the undisturbed run; one that starts or stops the
\* fan also voids the speed press in progress
SPI_STC(bytes) ==
    \E b \in bytes :
        LET s == ISR(Shared, b) IN
        /\ SetShared(s)
        /\ step' = "isr"
        /\ rx' = b
        /\ q0' = -1 /\ qk' = 0 /\ qhome' = FALSE /\ qtog' = FALSE
        /\ ev' = IF b = CMD_RESET \/ (b = CMD_START /\ current_spi_status = STATUS_READY)
                 THEN -1 ELSE ev
        /\ UNCHANGED <<locals, pc, ret, reg, cur0, lines>>

(* ------------------------------------------------------------------ *)
(* The main loop, one action per statement that touches shared state    *)
(* ------------------------------------------------------------------ *)
\* one main-loop step from statement `from` to statement `to`, leaving the
\* shared state as s
Abs(x) == IF x < 0 THEN -x ELSE x
Max(x, y) == IF x < y THEN y ELSE x

\* what the observers record of a main-loop step
Observe(from, s, to, label) ==
    /\ cur0' = IF to = "L163" THEN s.servo_current_ocr ELSE cur0
    /\ ev' = IF label = "press" THEN speed_level
             ELSE IF from = "L204a" THEN -1 ELSE ev
    /\ IF label \in {"toggle", "press"}
       THEN q0' = -1 /\ qk' = 0 /\ qhome' = FALSE /\ qtog' = FALSE
       ELSE IF from = "L168"
       THEN qtog' = (to = "L177" /\ motor_running = 0) /\ UNCHANGED <<q0, qk, qhome>>
       ELSE IF from = "L187" /\ q0 = -1
       THEN /\ q0' = servo_current_ocr
            /\ qk' = 0
            /\ qhome' = (motor_running = 0 /\
                            (servo_homing_required # 0 \/ user_ready_flag = 1))
            /\ UNCHANGED qtog
       ELSE IF to = "L163" /\ q0 # -1
       THEN /\ qk' = IF qk > Max(Abs(servo_target_ocr - q0), Abs(SERVO_CENTER - q0))
                     THEN qk ELSE qk + 1
            /\ UNCHANGED <<q0, qhome, qtog>>
       ELSE UNCHANGED <<q0, qk, qhome, qtog>>

\* what a sample of button line p at level `line` with latch `pressed`
\* records: the line's level, and the press event if one is produced
Sample(p, line, pressed) ==
    /\ SWITCH_PIN' = IF line THEN SWITCH_PIN \cup {p} ELSE SWITCH_PIN \ {p}
    /\ pev' = [pev EXCEPT ![p] = IF ~line THEN 0
                                 ELSE IF pressed = 0 /\ @ < 2 THEN @ + 1 ELSE @]

Stmt(from, s, to, label) ==
    /\ pc = from
    /\ SetShared(s)
    /\ pc' = to
    /\ step' = label
    /\ rx' = -1
    /\ Observe(from, s, to, label)
    /\ IF from \in {"L163", "L191"} THEN TRUE ELSE UNCHANGED <<SWITCH_PIN, pev>>
    /\ page' = IF from = "L163"
               THEN [p \in DOMAIN page |-> IF page[p] < 2 THEN page[p] + 1 ELSE 2]
               ELSE page

\* a 16-bit value with one of its bytes replaced by that byte of v
SetLo(w, v) == (w \div U8) * U8 + (v % U8)
SetHi(w, v) == (v \div U8) * U8 + (w % U8)

\* the values a two-byte read can return when the first byte was read while
\* the variable held t1 and the second while it held t2 (either byte first)
TornRead(t1, t2) == {SetLo(t1, t2), SetHi(t1, t2)}

\* line 163-166, 182-184: sample the toggle button, latch a new press
L163(levels) ==
    \E line \in levels :
        /\ Stmt("L163", Shared,
                IF line /\ toggle_button_pressed = 0 THEN "L168" ELSE "L187",
                IF line /\ toggle_button_pressed = 0 THEN "toggle" ELSE "main")
        /\ toggle_button_pressed' = IF line THEN 1 ELSE 0
        /\ Sample(SWITCH_TOGGLE_PIN, line, toggle_button_pressed)
        /\ UNCHANGED <<speed_button_pressed, ret, reg>>

\* line 168
L168 ==
    /\ Stmt("L168", Shared, IF user_ready_flag = 1 THEN "L170" ELSE "L177", "main")
    /\ UNCHANGED <<locals, ret, reg>>

\* line 170
L170 ==
    /\ Stmt("L170", [Shared EXCEPT !.user_ready_flag = 0], "L171", "main")
    /\ UNCHANGED <<locals, ret, reg>>

\* line 171-172: call stop_fan() if the fan runs
L171 ==
    /\ Stmt("L171", Shared, IF motor_running # 0 THEN "S309" ELSE "L174", "main")
    /\ ret' = IF motor_running # 0 THEN "L174" ELSE ret
    /\ UNCHANGED <<locals, reg>>

\* stop_fan(), line 309
S309 ==
    /\ Stmt("S309", [Shared EXCEPT !.motor_running = 0], "S311", "main")
    /\ UNCHANGED <<locals, ret, reg>>

\* stop_fan(), line 311
S311 ==
    /\ Stmt("S311", [Shared EXCEPT !.CS30 = 0], "S312", "main")
    /\ UNCHANGED <<locals, ret, reg>>

\* stop_fan(), line 312
S312 ==
    /\ Stmt("S312", [Shared EXCEPT !.COM3A1 = 0], "S313", "main")
    /\ UNCHANGED <<locals, ret, reg>>

\* stop_fan(), line 313
S313 ==
    /\ Stmt("S313", [Shared EXCEPT !.FAN_PWM_PORT = 0], "S315", "main")
    /\ UNCHANGED <<locals, ret, reg>>

\* stop_fan(), line 315, then the call of update_leds()
S315 ==
    /\ Stmt("S315", [Shared EXCEPT !.speed_level = 0], "U285", "main")
    /\ UNCHANGED <<locals, ret, reg>>

\* update_leds(), line 285
U285 ==
    /\ Stmt("U285", [Shared EXCEPT !.LED_PORT = {}], "U286", "main")
    /\ UNCHANGED <<locals, ret, reg>>

\* update_leds(), line 286: return if the fan is stopped
U286 ==
    /\ Stmt("U286", Shared, IF motor_running = 0 THEN ret ELSE "U288",
            IF motor_running = 0 /\ ret = "L204a" THEN "speed" ELSE "main")
    /\ ret' = IF motor_running = 0 THEN "none" ELSE ret
    /\ UNCHANGED <<locals, reg>>

\* update_leds(), line 288: the switch on speed_level
U288 ==
    /\ Stmt("U288", Shared,
            CASE speed_level = 2 -> "U290r"
              [] speed_level = 1 -> "U292r"
              [] speed_level = 0 -> "U294r"
              [] OTHER -> ret,
            IF speed_level > 2 /\ ret = "L204a" THEN "speed" ELSE "main")
    /\ ret' = IF speed_level > 2 THEN "none" ELSE ret
    /\ UNCHANGED <<locals, reg>>

\* the LED bits of PORTC as the byte a register holds, and back
PortByte(pins) ==
    (IF LED_LOW_PIN \in pins THEN 1 ELSE 0) + (IF LED_MEDIUM_PIN \in pins THEN 2 ELSE 0)
        + (IF LED_HIGH_PIN \in pins THEN 4 ELSE 0)
PortPins(byte) ==
    {p \in {LED_LOW_PIN, LED_MEDIUM_PIN, LED_HIGH_PIN} : (byte \div (2 ^ p)) % 2 = 1}

\* update_leds(), line 290, LED_PORT |= ...: the port is read. (A build
\* that sets the bit with one instruction behaves as the read and the write
\* with no handler run between them.)
U290r ==
    /\ Stmt("U290r", Shared, "U290w", "main")
    /\ reg' = PortByte(LED_PORT)
    /\ UNCHANGED <<locals, ret>>

\* update_leds(), line 290: the value read, with the bit set, is written
U290w ==
    /\ Stmt("U290w", [Shared EXCEPT !.LED_PORT = PortPins(reg) \cup {LED_HIGH_PIN}], "U292r", "main")
    /\ reg' = 0
    /\ UNCHANGED <<locals, ret>>

\* update_leds(), line 292: the port is read
U292r ==
    /\ Stmt("U292r", Shared, "U292w", "main")
    /\ reg' = PortByte(LED_PORT)
    /\ UNCHANGED <<locals, ret>>

\* update_leds(), line 292: the value read, with the bit set, is written
U292w ==
    /\ Stmt("U292w", [Shared EXCEPT !.LED_PORT = PortPins(reg) \cup {LED_MEDIUM_PIN}], "U294r", "main")
    /\ reg' = 0
    /\ UNCHANGED <<locals, ret>>

\* update_leds(), line 294: the port is read
U294r ==
    /\ Stmt("U294r", Shared, "U294w", "main")
    /\ reg' = PortByte(LED_PORT)
    /\ UNCHANGED <<locals, ret>>

\* update_leds(), line 294-295: the value read, with the bit set, is
\* written, and the return to the caller's caller
U294w ==
    /\ Stmt("U294w", [Shared EXCEPT !.LED_PORT = PortPins(reg) \cup {LED_LOW_PIN}], ret,
            IF ret = "L204a" THEN "speed" ELSE "main")
    /\ reg' = 0
    /\ ret' = "none"
    /\ UNCHANGED locals

\* mutant: the switch-off branch does not ask for homing
L174_NoHoming ==
    /\ Stmt("L174", Shared, "L187", "main")
    /\ UNCHANGED <<locals, ret, reg>>

\* line 174
L174 ==
    /\ Stmt("L174", [Shared EXCEPT !.servo_homing_required = 1], "L187", "main")
    /\ UNCHANGED <<locals, ret, reg>>

\* line 177
L177 ==
    /\ Stmt("L177", [Shared EXCEPT !.user_ready_flag = 1], "L178a", "main")
    /\ UNCHANGED <<locals, ret, reg>>

\* line 178, first byte stored (reg = 0: the low byte went first)
L178a ==
    \E first \in {0, 1} :
        /\ Stmt("L178a",
                [Shared EXCEPT !.servo_target_ocr =
                    IF first = 0 THEN SetLo(@, SERVO_CENTER) ELSE SetHi(@, SERVO_CENTER)],
                "L178b", "main")
        /\ reg' = first
        /\ UNCHANGED <<locals, ret>>

\* line 178, second byte stored
L178b ==
    /\ Stmt("L178b",
            [Shared EXCEPT !.servo_target_ocr =
                IF reg = 0 THEN SetHi(@, SERVO_CENTER) ELSE SetLo(@, SERVO_CENTER)],
            "L179", "main")
    /\ reg' = 0
    /\ UNCHANGED <<locals, ret>>

\* line 179
L179 ==
    /\ Stmt("L179", [Shared EXCEPT !.servo_homing_required = 1], "L187", "main")
    /\ UNCHANGED <<locals, ret, reg>>

\* line 187
L187 ==
    /\ Stmt("L187", Shared, IF motor_running # 0 THEN "L191" ELSE "L218", "main")
    /\ UNCHANGED <<locals, ret, reg>>

\* line 191-194, 199-201: sample the speed button, latch a new press
L191(levels) ==
    \E line \in levels :
        /\ Stmt("L191", Shared,
                IF line /\ speed_button_pressed = 0 THEN "L195r" ELSE "L204a",
                IF line /\ speed_button_pressed = 0 THEN "press" ELSE "main")
        /\ speed_button_pressed' = IF line THEN 1 ELSE 0
        /\ Sample(SWITCH_SPEED_PIN, line, speed_button_pressed)
        /\ UNCHANGED <<toggle_button_pressed, ret, reg>>

\* line 195, speed_level++: the load
L195r ==
    /\ Stmt("L195r", Shared, "L195w", "main")
    /\ reg' = speed_level
    /\ UNCHANGED <<locals, ret>>

\* line 195, speed_level++: the store
L195w ==
    /\ Stmt("L195w", [Shared EXCEPT !.speed_level = (reg + 1) % U8], "L196r", "main")
    /\ reg' = 0
    /\ UNCHANGED <<locals, ret>>

\* line 196: the test
L196r ==
    /\ Stmt("L196r", Shared, IF speed_level > 2 THEN "L196w" ELSE "L197", "main")
    /\ UNCHANGED <<locals, ret, reg>>

\* line 196: the store
L196w ==
    /\ Stmt("L196w", [Shared EXCEPT !.speed_level = 0], "L197", "main")
    /\ UNCHANGED <<locals, ret, reg>>

\* line 197: the argument of set_fan_speed() is loaded
L197 ==
    /\ Stmt("L197", Shared, "F277h", "main")
    /\ reg' = speed_level
    /\ UNCHANGED <<locals, ret>>

\* set_fan_speed(), line 276-279, OCR3A = DUTY_...: the high byte of the
\* duty value goes to TEMP (no store for a level outside the switch)
F277h ==
    /\ Stmt("F277h",
            [Shared EXCEPT !.TEMP = IF reg \in {0, 1, 2}
                                    THEN DutyOf(reg, 0) \div U8 ELSE @],
            "F277l", "main")
    /\ UNCHANGED <<locals, ret, reg>>

\* set_fan_speed(), line 276-280: the low byte is stored, and OCR3A takes it
\* together with the byte TEMP holds; then the call of update_leds()
F277l ==
    /\ Stmt("F277l",
            [Shared EXCEPT !.OCR3A = IF reg \in {0, 1, 2}
                                     THEN TEMP * U8 + (DutyOf(reg, 0) % U8) ELSE @],
            "U285", "main")
    /\ reg' = 0
    /\ ret' = "L204a"
    /\ UNCHANGED locals

\* line 204: the first byte of servo_target_ocr is loaded
L204a ==
    /\ Stmt("L204a", Shared, "L204b", "main")
    /\ reg' = servo_target_ocr
    /\ UNCHANGED <<locals, ret>>

\* line 204-206: the second byte is loaded, the comparison, the step up
L204b ==
    \E t \in TornRead(reg, servo_target_ocr) :
        /\ IF servo_current_ocr < t
           THEN Stmt("L204b",
                     [Shared EXCEPT !.servo_current_ocr = (@ + 1) % U16,
                                    !.OCR1A = (servo_current_ocr + 1) % U16],
                     "L212", "main")
           ELSE Stmt("L204b", Shared, "L207a", "main")
        /\ reg' = 0
        /\ UNCHANGED <<locals, ret>>

\* line 207: the first byte of servo_target_ocr is loaded again
L207a ==
    /\ Stmt("L207a", Shared, "L207b", "main")
    /\ reg' = servo_target_ocr
    /\ UNCHANGED <<locals, ret>>

\* line 207-209: the second byte is loaded, the comparison, the step down
L207b ==
    \E t \in TornRead(reg, servo_target_ocr) :
        /\ IF servo_current_ocr > t
           THEN Stmt("L207b",
                     [Shared EXCEPT !.servo_current_ocr = (@ - 1) % U16,
                                    !.OCR1A = (servo_current_ocr - 1) % U16],
                     "L212", "main")
           ELSE Stmt("L207b", Shared, "L212", "main")
        /\ reg' = 0
        /\ UNCHANGED <<locals, ret>>

\* line 212, and the end of the tick (line 239)
L212 ==
    /\ Stmt("L212", [Shared EXCEPT !.current_spi_status = STATUS_RUNNING],
            "L163", "status")
    /\ UNCHANGED <<locals, ret, reg>>

\* line 218, left operand of ||
L218 ==
    /\ Stmt("L218", Shared, IF servo_homing_required # 0 THEN "L219" ELSE "L218b", "main")
    /\ UNCHANGED <<locals, ret, reg>>

\* line 218, right operand of ||
L218b ==
    /\ Stmt("L218b", Shared, IF user_ready_flag = 1 THEN "L219" ELSE "L232", "main")
    /\ UNCHANGED <<locals, ret, reg>>

\* mutant: the stopped branch also forces servo_target_ocr to the centre
L219_ForcesTarget ==
    /\ Stmt("L219",
            IF servo_current_ocr < SERVO_CENTER
            THEN [Shared EXCEPT !.servo_current_ocr = (@ + 1) % U16,
                                !.OCR1A = (servo_current_ocr + 1) % U16,
                                !.servo_target_ocr = SERVO_CENTER]
            ELSE IF servo_current_ocr > SERVO_CENTER
            THEN [Shared EXCEPT !.servo_current_ocr = (@ - 1) % U16,
                                !.OCR1A = (servo_current_ocr - 1) % U16,
                                !.servo_target_ocr = SERVO_CENTER]
            ELSE [Shared EXCEPT !.servo_homing_required = 0,
                                !.servo_target_ocr = SERVO_CENTER],
            "L232", "main")
    /\ UNCHANGED <<locals, ret, reg>>

\* mutant: a stopped fan's servo steps towards servo_target_ocr
L219_HomesToTarget ==
    /\ Stmt("L219",
            IF servo_current_ocr < servo_target_ocr
            THEN [Shared EXCEPT !.servo_current_ocr = (@ + 1) % U16,
                                !.OCR1A = (servo_current_ocr + 1) % U16]
            ELSE IF servo_current_ocr > servo_target_ocr
            THEN [Shared EXCEPT !.servo_current_ocr = (@ - 1) % U16,
                                !.OCR1A = (servo_current_ocr - 1) % U16]
            ELSE [Shared EXCEPT !.servo_homing_required = 0],
            "L232", "main")
    /\ UNCHANGED <<locals, ret, reg>>

\* line 219-228: one step towards the centre, or homing is complete
L219 ==
    /\ Stmt("L219",
            IF servo_current_ocr < SERVO_CENTER
            THEN [Shared EXCEPT !.servo_current_ocr = (@ + 1) % U16,
                                !.OCR1A = (servo_current_ocr + 1) % U16]
            ELSE IF servo_current_ocr > SERVO_CENTER
            THEN [Shared EXCEPT !.servo_current_ocr = (@ - 1) % U16,
                                !.OCR1A = (servo_current_ocr - 1) % U16]
            ELSE [Shared EXCEPT !.servo_homing_required = 0],
            "L232", "main")
    /\ UNCHANGED <<locals, ret, reg>>

\* mutant: READY is reported without looking at the servo
L232_ReadyIgnoresServo ==
    /\ Stmt("L232", Shared, "L233", "main")
    /\ reg' = IF user_ready_flag = 1 THEN STATUS_READY ELSE STATUS_HOMING_OFF
    /\ UNCHANGED <<locals, ret>>

\* line 232: the condition is evaluated (reg = the status it selects)
L232 ==
    /\ Stmt("L232", Shared, "L233", "main")
    /\ reg' = IF user_ready_flag = 1 /\ servo_current_ocr = SERVO_CENTER
              THEN STATUS_READY ELSE STATUS_HOMING_OFF
    /\ UNCHANGED <<locals, ret>>

\* line 233 or 235, and the end of the tick (line 239)
L233 ==
    /\ Stmt("L233", [Shared EXCEPT !.current_spi_status = reg], "L163", "status")
    /\ reg' = 0
    /\ UNCHANGED <<locals, ret>>

Next ==
    \/ SPI_STC(HostBytes)
    \/ L163(LineLevels) \/ L168 \/ L170 \/ L171 \/ L174 \/ L177 \/ L178a \/ L178b
    \/ L179 \/ L187 \/ L191(LineLevels) \/ L195r \/ L195w \/ L196r \/ L196w \/ L197
    \/ F277h \/ F277l \/ L204a \/ L204b \/ L207a \/ L207b \/ L212 \/ L218 \/ L218b \/ L219
    \/ L232 \/ L233
    \/ S309 \/ S311 \/ S312 \/ S313 \/ S315
    \/ U285 \/ U286 \/ U288 \/ U290r \/ U290w \/ U292r \/ U292w
    \/ U294r \/ U294w

Spec == Init /\ [][Next]_vars

(* ------------------------------------------------------------------ *)
(* The same program with the servo driven to the end of its range: the  *)
(* toggle button is pressed at power-on and held, the speed button is   *)
(* never pressed, and the host sends START and the ANGLE bytes 90 and   *)
(* 170 (targets 375 = 0x0177 and 610 = 0x0262). The statements of the   *)
(* switch-off and speed-press paths cannot run and are left out.        *)
(* ------------------------------------------------------------------ *)
EdgeBytes == {CMD_START, 90, ANGLE_MAX}

NextEdge ==
    \/ SPI_STC(EdgeBytes)
    \/ L163({TRUE}) \/ L168 \/ L177 \/ L178a \/ L178b \/ L179 \/ L187
    \/ L191({FALSE}) \/ L204a \/ L204b \/ L207a \/ L207b \/ L212
    \/ L218 \/ L218b \/ L219 \/ L232 \/ L233

SpecEdge == Init /\ [][NextEdge]_vars

(* ------------------------------------------------------------------ *)
(* The program with its scheduling, for what it eventually does: main() *)
(* never returns and the handler returns, so the main loop always takes *)
(* its next step. The speed button, which touches only the fan speed    *)
(* and the indicators, is never pressed; the statements of the speed    *)
(* press cannot run and are left out.                                   *)
(* ------------------------------------------------------------------ *)
MainLoop ==
    \/ L163(LineLevels) \/ L168 \/ L170 \/ L171 \/ L174 \/ L177 \/ L178a \/ L178b
    \/ L179 \/ L187 \/ L191({FALSE})
    \/ L204a \/ L204b \/ L207a \/ L207b \/ L212 \/ L218 \/ L218b \/ L219
    \/ L232 \/ L233
    \/ S309 \/ S311 \/ S312 \/ S313 \/ S315
    \/ U285 \/ U286 \/ U288 \/ U294r \/ U294w

NextLive == SPI_STC(HostBytes) \/ MainLoop

SpecLive == Init /\ [][NextLive]_vars /\ WF_vars(MainLoop)

(* ------------------------------------------------------------------ *)
(* The same program with the button lines as the user drives them: a    *)
(* line changes between two samples, and keeps each level for one whole *)
(* tick or longer (a press or a release shorter than a tick is not one  *)
(* the polled debounce is meant to see). Each sample reads the line.    *)
(* The host sends RESET and START; the servo stays at the centre.       *)
(* ------------------------------------------------------------------ *)
PressBytes == {CMD_RESET, CMD_START}

\* the user presses or releases a button
Button ==
    \E p \in {SWITCH_SPEED_PIN, SWITCH_TOGGLE_PIN} :
        /\ page[p] = 2
        /\ SWITCH_PIN' = IF p \in SWITCH_PIN THEN SWITCH_PIN \ {p}
                          ELSE SWITCH_PIN \cup {p}
        /\ pev' = [pev EXCEPT ![p] = 0]
        /\ page' = [page EXCEPT ![p] = 0]
        /\ step' = "line"
        /\ rx' = -1
        /\ UNCHANGED <<prog, locals, pc, ret, reg, obs>>

NextPress ==
    \/ SPI_STC(PressBytes)
    \/ Button
    \/ L163({SWITCH_TOGGLE_PIN \in SWITCH_PIN})
    \/ L168 \/ L170 \/ L171 \/ L174 \/ L177 \/ L178a \/ L178b \/ L179 \/ L187
    \/ L191({SWITCH_SPEED_PIN \in SWITCH_PIN})
    \/ L195r \/ L195w \/ L196r \/ L196w \/ L197
    \/ F277h \/ F277l \/ L204a \/ L204b \/ L207a \/ L207b \/ L212 \/ L218 \/ L218b \/ L219
    \/ L232 \/ L233
    \/ S309 \/ S311 \/ S312 \/ S313 \/ S315
    \/ U285 \/ U286 \/ U288 \/ U290r \/ U290w \/ U292r \/ U292w
    \/ U294r \/ U294w

SpecPress == Init /\ [][NextPress]_vars

(* ------------------------------------------------------------------ *)
(* Claims                                                               *)
(* ------------------------------------------------------------------ *)
\* the status the flags call for (spec 4.2): RUNNING if the fan runs, else
\* READY iff the user is ready and the servo is centred, else HOMING_OFF
StatusOf(running, ready, current) ==
    IF running # 0 THEN 222
    ELSE IF ready = 1 /\ current = 375 THEN 111
    ELSE 0

\* a step of the handler (a handler run that changes nothing is a stutter)
HandlerStep == step' = "isr"

\* C1 as stated, for the commands that start or stop the fan: the byte the
\* handler queues for transfer n+1 is the status code of the state that
\* results from the command of transfer n (222 after an accepted START, not
\* 222 after a RESET that stops the fan).
C1_ResponseReflectsCommand ==
    [][(HandlerStep /\ motor_running' # motor_running) =>
         SPDR' = StatusOf(motor_running', user_ready_flag', servo_current_ocr')]_vars

\* C1 amended: the byte the host reads on transfer n+1 is the stored status
\* as it was when the handler processed the command of transfer n: the
\* handler queues current_spi_status without recomputing it, and nothing
\* else writes the response register.
C1_ResponseIsStoredStatus ==
    [][/\ HandlerStep => /\ SPDR' = current_spi_status
                         /\ current_spi_status' = current_spi_status
       /\ ~HandlerStep => SPDR' = SPDR]_vars

\* C1 witness: a START was accepted and the queued response is still READY
C1_Witness ==
    /\ step = "isr" /\ rx = 255
    /\ motor_running = 1
    /\ SPDR = 111

\* C2 as stated: whenever the main loop has just completed its status
\* recomputation, the stored status is the one the flags call for.
C2_StatusPrecedence ==
    step = "status" =>
        current_spi_status = StatusOf(motor_running, user_ready_flag, servo_current_ocr)

\* C3: from every reachable state the handler, given byte 200, ends with the
\* fan stopped, the user not ready and homing required, and a second RESET
\* right after it changes nothing.
C3_ResetPostAndIdempotent ==
    LET s1 == ISR(Shared, 200) IN
    /\ s1.motor_running = 0
    /\ s1.user_ready_flag = 0
    /\ s1.servo_homing_required = 1
    /\ ISR(s1, 200) = s1
    /\ (step = "isr" /\ rx = 200) =>
          /\ motor_running = 0 /\ user_ready_flag = 0 /\ servo_homing_required = 1
          /\ ISR(Shared, 200) = Shared

\* C3 witness: a RESET has just stopped a fan that ran at level 1 with the
\* servo off centre (stop_fan leaves the duty register as it was)
C3_Witness ==
    /\ step = "isr" /\ rx = 200
    /\ motor_running = 0 /\ user_ready_flag = 0 /\ servo_homing_required = 1
    /\ OCR3A = 799
    /\ servo_current_ocr # 375

\* the ANGLE bytes tried on a state the handler has just left (on every
\* other reachable state all of 10..170 are tried)
AngleProbe == {10, 11, 89, 90, 91, 169, 170}

\* C4: for every byte b in 10..170 the handler sets target to
\* (b-10)*(610-140)/160 + 140 (truncating) iff user_ready and motor_running
\* hold at receipt, and otherwise leaves target alone; in both cases it
\* changes nothing else but the queued response.
C4_AngleGating ==
    LET sh == Shared
        gate == user_ready_flag = 1 /\ motor_running = 1
        base == [sh EXCEPT !.SPDR = current_spi_status]
    IN
    /\ \A b \in (IF step = "isr" THEN AngleProbe ELSE 10 .. 170) :
         ISR(sh, b) =
            IF gate
            THEN [base EXCEPT !.servo_target_ocr =
                                  ((b - 10) * (610 - 140)) \div 160 + 140]
            ELSE base
    /\ step = "init" =>
         /\ ocr_value(10) = 140 /\ ocr_value(90) = 375 /\ ocr_value(170) = 610
         /\ \A b \in 10 .. 170 :
              /\ ocr_value(b) = ((b - 10) * (610 - 140)) \div 160 + 140
              /\ ocr_value(b) \in 140 .. 610
    /\ (step = "isr" /\ rx \in 10 .. 170 /\ gate) =>
         servo_target_ocr = ((rx - 10) * (610 - 140)) \div 160 + 140

\* C4 witness: an ANGLE byte other than 90 was accepted and moved the target
C4_Witness ==
    /\ step = "isr" /\ rx \in 10 .. 170 /\ rx # 90
    /\ motor_running = 1 /\ user_ready_flag = 1
    /\ servo_target_ocr = ((rx - 10) * 470) \div 160 + 140
    /\ servo_target_ocr # servo_current_ocr

\* C5: motor_running goes from 0 to 1 only in a handler step for byte 255
\* taken while the stored status is READY, and that step sets speed_level
\* to 0 and enables the fan PWM with the level-0 duty (60% of 1999); a 255
\* received in any other status changes nothing but the queued response.
C5_StartGating ==
    [][/\ (motor_running = 0 /\ motor_running' = 1) =>
            /\ HandlerStep /\ rx' = 255
            /\ current_spi_status = 111
            /\ speed_level' = 0
            /\ COM3A1' = 1 /\ CS30' = 1
            /\ OCR3A' = 1199
       /\ current_spi_status # 111 =>
            ISR(Shared, 255) = [Shared EXCEPT !.SPDR = current_spi_status]]_vars

\* C5 witness: the handler has just started the fan
C5_Witness ==
    /\ step = "isr" /\ rx = 255
    /\ motor_running = 1 /\ speed_level = 0
    /\ COM3A1 = 1 /\ CS30 = 1 /\ OCR3A = 1199
    /\ current_spi_status = 111

\* the bytes that are no command
Unrecognized == (0 .. 9) \cup (171 .. 199) \cup (201 .. 254)

\* the unrecognized bytes tried on a state the handler has just left (on
\* every other reachable state all of them are tried)
UnrecognizedProbe == {0, 9, 171, 199, 201, 254}

\* C6: for every byte that is no command the handler leaves the controller
\* state and the servo target as they are; all it does is queue the stored
\* status as the next response.
C6_FailInert ==
    LET sh == Shared
        base == [sh EXCEPT !.SPDR = current_spi_status]
    IN
    /\ \A b \in (IF step = "isr" THEN UnrecognizedProbe ELSE Unrecognized) :
         ISR(sh, b) = base
    /\ (step = "isr" /\ rx \in Unrecognized) => SPDR = current_spi_status

\* C6 witness: an unrecognized byte arrived while the fan ran with the servo
\* under way, and the response queued is the stored status
C6_Witness ==
    /\ step = "isr" /\ rx = 201
    /\ motor_running = 1
    /\ servo_target_ocr # servo_current_ocr
    /\ SPDR = current_spi_status

\* C7 as stated: in an undisturbed run (target fixed, no command, no press)
\* that began with current = q0, after k ticks the distance to target is
\* |target - q0| - k, and 0 from tick |target - q0| on, fan running or not.
C7_ConvergesToTarget ==
    (pc = "L163" /\ q0 # -1) =>
        Abs(servo_target_ocr - servo_current_ocr)
            = Max(Abs(servo_target_ocr - q0) - qk, 0)

\* C7 amended: in an undisturbed run that began with current = q0, after k
\* ticks: while the fan runs, the distance to target is |target - q0| - k,
\* and 0 from tick |target - q0| on; while the fan is stopped and the run
\* began with homing_required or user_ready set, the same holds of the
\* distance to 375, whatever target is; otherwise current does not move.
C7_ConvergesToGoal ==
    (pc = "L163" /\ q0 # -1) =>
        IF motor_running # 0
        THEN Abs(servo_target_ocr - servo_current_ocr)
                = Max(Abs(servo_target_ocr - q0) - qk, 0)
        ELSE IF qhome
        THEN Abs(375 - servo_current_ocr) = Max(Abs(375 - q0) - qk, 0)
        ELSE servo_current_ocr = q0

\* C7 witness: a stopped fan whose servo started two or more units from the
\* centre has arrived at 375 after exactly that many ticks, target elsewhere
C7_Witness ==
    /\ pc = "L163" /\ q0 # -1 /\ qhome
    /\ motor_running = 0
    /\ Abs(375 - q0) >= 2 /\ qk = Abs(375 - q0)
    /\ servo_current_ocr = 375
    /\ servo_target_ocr # 375

\* C8 as stated: current and target always lie in [140, 610], and within a
\* tick current moves by at most one unit from where the tick began.
C8_RangeAndNoJump ==
    /\ servo_current_ocr \in 140 .. 610
    /\ servo_target_ocr \in 140 .. 610
    /\ Abs(servo_current_ocr - cur0) <= 1

\* the part of C8 that holds: within a tick, current moves by at most one
\* unit from where the tick began
C8_NoJump == Abs(servo_current_ocr - cur0) <= 1

\* C9 as stated: a speed press during which the fan is neither stopped nor
\* started anew ends with speed_level = (old level + 1) mod 3; every speed
\* press that ends with the fan running leaves the duty register at the
\* table value of speed_level (1199, 799, 399 of 1999 for level 0, 1, 2);
\* outside the increment statement of line 195-196 speed_level is 0, 1 or 2.
C9_SpeedCycling ==
    /\ (step = "speed" /\ ev # -1) => speed_level = (ev + 1) % 3
    /\ (step = "speed" /\ motor_running # 0) =>
          OCR3A = CASE speed_level = 0 -> 1199
                    [] speed_level = 1 -> 799
                    [] speed_level = 2 -> 399
                    [] OTHER -> -1
    /\ pc \notin {"L196r", "L196w"} => speed_level \in {0, 1, 2}
    /\ ev # -1 => ev \in {0, 1, 2}

\* C10: after a toggle press that found the fan stopped and user_ready 0,
\* with no other press and no command, user_ready is 1 and target 375, and
\* the status stored at the end of tick k (the tick of the press is tick 1)
\* is READY iff k >= |375 - current at the press|, else HOMING_OFF.
C10_ToggleOnReady ==
    (pc = "L163" /\ q0 # -1 /\ qtog) =>
        /\ qk >= 1
        /\ user_ready_flag = 1
        /\ servo_target_ocr = 375
        /\ current_spi_status = IF qk >= Abs(375 - q0) THEN 111 ELSE 0

\* C10 witness: READY has appeared at the end of tick |375 - current| >= 2
C10_Witness ==
    /\ pc = "L163" /\ q0 # -1 /\ qtog
    /\ Abs(375 - q0) >= 2 /\ qk = Abs(375 - q0)
    /\ step = "status"
    /\ current_spi_status = 111

\* C11 as stated, its first half: a RESET received while the fan runs leaves
\* the fan stopped with speed_level 0, and once the fan is stopped with
\* speed_level 0 the level stays 0 for as long as the fan is stopped.
C11_ResetWhileRunning ==
    [][/\ (HandlerStep /\ rx' = 200 /\ motor_running # 0) =>
            (motor_running' = 0 /\ speed_level' = 0)
       /\ (motor_running = 0 /\ speed_level = 0 /\ motor_running' = 0) =>
            speed_level' = 0]_vars

\* the statements outside stop_fan(), set_fan_speed() and update_leds() and
\* outside the speed-level change of line 195-197 that leads to them
NoCallInProgress ==
    pc \in {"L163", "L168", "L170", "L171", "L174", "L177", "L178a", "L178b",
            "L179", "L187", "L191", "L204a", "L204b", "L207a", "L207b", "L212",
            "L218", "L218b", "L219", "L232", "L233"}

\* C12 as stated: whenever no indicator update is in progress, the lit
\* indicators are {L0}, {L0,L1}, {L0,L1,L2} at level 0, 1, 2 while the fan
\* runs, and none is lit while the fan is stopped.
C12_IndicatorPolicy ==
    NoCallInProgress =>
        LED_PORT = IF motor_running = 0 THEN {}
                   ELSE CASE speed_level = 0 -> {0}
                          [] speed_level = 1 -> {0, 1}
                          [] speed_level = 2 -> {0, 1, 2}
                          [] OTHER -> {}

\* C13 as stated: a press produces at most one press event; whenever the
\* main loop samples a button line asserted (the toggle line in every tick,
\* the speed line in every tick of a running fan) the press in progress has
\* produced exactly one; and at the end of a tick throughout which a line
\* was deasserted its latch is clear, whether the fan runs or not.
C13_OneEventPerPress ==
    [][/\ pev'[0] <= 1 /\ pev'[1] <= 1
       /\ (pc = "L163" /\ pc' # "L163" /\ 1 \in SWITCH_PIN') => pev'[1] = 1
       /\ (pc = "L191" /\ pc' # "L191" /\ 0 \in SWITCH_PIN') => pev'[0] = 1
       /\ (pc = "L163" /\ page[1] >= 1 /\ 1 \notin SWITCH_PIN) =>
            toggle_button_pressed = 0
       /\ (pc = "L163" /\ page[0] >= 1 /\ 0 \notin SWITCH_PIN) =>
            speed_button_pressed = 0]_vars

\* C14 as stated: at the end of every main-loop tick in which the fan is
\* stopped and homing_required or user_ready holds, target is 375.
C14_TargetForcedToCenter ==
    (step = "status" /\ motor_running = 0 /\
        (servo_homing_required # 0 \/ user_ready_flag = 1)) =>
        servo_target_ocr = 375

\* C14 amended: while the fan is stopped the main loop steers by the
\* constant 375 and never writes target: the statement reached when
\* homing_required or user_ready holds at line 218 moves current one unit
\* towards 375, or clears homing_required when current is 375, and no step
\* of the stopped branch changes target.
C14_StoppedBranchLeavesTarget ==
    [][/\ (pc = "L219" /\ ~HandlerStep) =>
            /\ Abs(375 - servo_current_ocr') = Max(Abs(375 - servo_current_ocr) - 1, 0)
            /\ servo_current_ocr = 375 => servo_homing_required' = 0
       /\ (pc \in {"L218", "L218b", "L219", "L232", "L233"} /\ ~HandlerStep) =>
            servo_target_ocr' = servo_target_ocr]_vars

\* C14 witness: the stopped branch has run with the fan stopped and homing
\* required: the servo is one unit nearer to 375 than at the start of the
\* tick, and target is not 375
C14_Witness ==
    /\ pc = "L233" /\ motor_running = 0 /\ servo_homing_required # 0
    /\ Abs(375 - servo_current_ocr) = Abs(375 - cur0) - 1
    /\ servo_target_ocr # 375

\* C15: homing_required is cleared only with current = 375; at the end of a
\* tick a stopped fan's servo is never off centre with homing_required and
\* user_ready both clear; and a stopped fan with homing required leads to
\* current = 375 with homing_required cleared, unless the fan is restarted.
C15_HomingCompletes ==
    /\ [][(servo_homing_required # 0 /\ servo_homing_required' = 0) =>
            (servo_current_ocr = 375 /\ servo_current_ocr' = 375)]_vars
    /\ [](pc = "L163" =>
            ~(motor_running = 0 /\ servo_current_ocr # 375 /\
              servo_homing_required = 0 /\ user_ready_flag = 0))
    /\ (motor_running = 0 /\ servo_homing_required # 0) ~>
            ((servo_current_ocr = 375 /\ servo_homing_required = 0) \/
             motor_running # 0)

\* C15 witness: homing has completed after a RESET that stopped the fan two
\* or more units off centre: the servo arrived at 375 in that many ticks and
\* homing_required is cleared
C15_Witness ==
    /\ pc = "L163" /\ q0 # -1 /\ qhome
    /\ motor_running = 0 /\ user_ready_flag = 0
    /\ Abs(375 - q0) >= 2 /\ qk = Abs(375 - q0) + 1
    /\ servo_current_ocr = 375 /\ servo_homing_required = 0

\* C16 as stated: in every step taken while the fan runs, target changes
\* only in a handler step for an ANGLE byte.
C16_TargetOwnership ==
    [][(motor_running # 0 /\ servo_target_ocr' # servo_target_ocr) =>
            (HandlerStep /\ rx' \in 10 .. 170)]_vars

\* C17 as stated: the value the main loop compares current against at line
\* 204 is the value target held at one of the two byte reads (a value
\* written in full), never a mix of the two: a step up is taken only if
\* current is below one of them, and declined only if it is not below one.
C17_ReadsWholeTarget ==
    [][pc = "L204b" =>
         /\ servo_current_ocr' # servo_current_ocr =>
              (servo_current_ocr < reg \/ servo_current_ocr < servo_target_ocr)
         /\ pc' = "L207a" =>
              (servo_current_ocr >= reg \/ servo_current_ocr >= servo_target_ocr)]_vars

\* C18 as stated: at the end of every main-loop tick, motor_running implies
\* user_ready.
C18_RunsOnlyWhenReady ==
    step = "status" => (motor_running # 0 => user_ready_flag = 1)

\* C19 as stated: whenever no start_fan or stop_fan call is in progress,
\* the fan PWM channel (output compare and clock of timer 3) is enabled if
\* and only if motor_running is set.
C19_FlagAgreesWithOutput ==
    NoCallInProgress => ((COM3A1 = 1 /\ CS30 = 1) <=> motor_running # 0)

\* C20 as stated: in every reachable state status = READY implies
\* current = 375, and every step in which motor_running goes from 0 to 1 is
\* taken with current = 375.
C20_StartsCentered ==
    [][/\ current_spi_status' = 111 => servo_current_ocr' = 375
       /\ (motor_running = 0 /\ motor_running' # 0) => servo_current_ocr = 375]_vars

====
